---- MODULE Spec2Model ----
(***************************************************************************)
(* Model of the ROV raspberry-pi server: the DataManager (per-device       *)
(* dictionaries with dispatch and ramping), the surface socket session,   *)
(* the Arduino serial sessions and the threads of Server that keep them   *)
(* alive.                                                                  *)
(*                                                                         *)
(* msgpack, pyserial and the socket module are external libraries: a call *)
(* into them either returns a value or raises one of the exception        *)
(* classes the calling code names (UnicodeError/UnpackException,          *)
(* SerialException, OSError).  A raw inbound message is therefore one of: *)
(* empty, undecodable, decodable to something that is not a mapping, or   *)
(* decodable to a mapping (an ordered sequence of <<key, value>> pairs).  *)
(* What the code itself does with such values is followed as Python        *)
(* evaluates it, exceptions that nothing catches included.                 *)
(*                                                                         *)
(* Spec runs the sessions and their supervisors concurrently with every    *)
(* DataManager call as one step; StoreSpec drives the DataManager alone;   *)
(* RaceSpec follows the DataManager calls of running sessions statement by *)
(* statement; FairSpec adds the scheduling of the port supervisors;        *)
(* RampSpec repeats one surface call.                                      *)
(***************************************************************************)
EXTENDS Integers, Sequences, FiniteSets, TLC

\* ------------------------------------------------------------------------
\* enums.py / constants.py
\* ------------------------------------------------------------------------
UNASSIGNED == "UNASSIGNED"
SURFACE == "S"
ARDUINO_A == "A_A"
ARDUINO_B == "A_B"
Device == {UNASSIGNED, SURFACE, ARDUINO_A, ARDUINO_B}

Arduinos == {ARDUINO_A, ARDUINO_B}
Stored == {SURFACE, ARDUINO_A, ARDUINO_B}

RAMP_RATE == 2
RAMP_KEYS == {"T_HFP", "T_HFS", "T_HAP", "T_HAS", "T_VFP", "T_VFS", "T_VAP", "T_VAS", "T_M"}

THRUSTER_IDLE == 1500
GRIPPER_IDLE == 1500
CORD_IDLE == 1500

\* The literal of constants.py: the value DEFAULTS has when the module is imported.
DEFAULTS_LITERAL ==
    [S   |-> [A_A |-> FALSE, A_B |-> FALSE, S_A |-> 0, S_B |-> 0],
     A_A |-> [T_HFP |-> THRUSTER_IDLE, T_HFS |-> THRUSTER_IDLE, T_HAP |-> THRUSTER_IDLE,
              T_HAS |-> THRUSTER_IDLE, T_VFP |-> THRUSTER_IDLE, T_VFS |-> THRUSTER_IDLE,
              T_VAP |-> THRUSTER_IDLE, T_VAS |-> THRUSTER_IDLE],
     A_B |-> [T_M |-> THRUSTER_IDLE, M_G |-> GRIPPER_IDLE, M_C |-> CORD_IDLE]]

ARDUINO_PORTS == {"ttyA", "ttyB"}

\* ------------------------------------------------------------------------
\* Bounds of the model
\* ------------------------------------------------------------------------
\* A ramped value is followed for at most this many steps away from idle.
MaxRampSteps == 2

\* A fixed ramp target lies at most this far from idle.
MaxTargetDistance == 7

\* ------------------------------------------------------------------------
\* State
\* ------------------------------------------------------------------------
VARIABLES
    DEFAULTS,     \* constants.DEFAULTS, a module-level dict of dicts (mutable objects)
    copies,       \* the three dicts DataManager.__init__ creates with .copy()
    alias,        \* alias[d]: DataManager._data[d] is the very object DEFAULTS[d]
    res,          \* the last call a direct caller of the DataManager made, and its outcome
    s_sup,        \* position of Server._surface_thread
    s_thread,     \* position of _SurfaceConnection._communicate
    s_client,     \* _SurfaceConnection._client_socket: "None", "open", "closed"
    s_data,       \* local `data` of _SurfaceConnection._communicate: the message or dict in hand
    a_sup,        \* a_sup[p]: position of Server._arduino_thread for port p
    a_thread,     \* a_thread[p]: position of Arduino._communicate
    a_device,     \* a_device[p]: Arduino._device
    a_open,       \* a_open[p]: Arduino._serial.is_open
    a_data        \* a_data[p]: local `data` of Arduino._communicate: the line read and not yet
                  \* handled, or the dict fetched for the next write

storeVars == <<DEFAULTS, copies, alias>>
surfaceVars == <<s_sup, s_thread, s_client, s_data>>
arduinoVars == <<a_sup, a_thread, a_device, a_open, a_data>>
vars == <<DEFAULTS, copies, alias, res, s_sup, s_thread, s_client, s_data,
          a_sup, a_thread, a_device, a_open, a_data>>

\* ------------------------------------------------------------------------
\* Python dict helpers
\* ------------------------------------------------------------------------
EmptyDict == [k \in {} |-> 0]

\* d[k] = v on a Python dict: inserts the key when it is missing
DictAssign(d, k, v) == [x \in (DOMAIN d) \cup {k} |-> IF x = k THEN v ELSE d[x]]

\* the key set of **kwargs, given as an ordered sequence of <<key, value>> pairs
KwKeys(kw) == {kw[i][1] : i \in DOMAIN kw}

\* ------------------------------------------------------------------------
\* DataManager, as pure functions of the store st = [DEFAULTS, copies, alias]
\* ------------------------------------------------------------------------
Store == [DEFAULTS |-> DEFAULTS, copies |-> copies, alias |-> alias]

\* self._data[device]
Data(st, device) == IF st.alias[device] THEN st.DEFAULTS[device] ELSE st.copies[device]

\* self._data[device][key] = value: writes the object _data[device] refers to
ItemAssign(st, device, key, value) ==
    IF st.alias[device]
    THEN [st EXCEPT !.DEFAULTS[device] = DictAssign(@, key, value)]
    ELSE [st EXCEPT !.copies[device] = DictAssign(@, key, value)]

\* DataManager.__init__
DataManagerInit ==
    [DEFAULTS |-> DEFAULTS_LITERAL,
     copies   |-> DEFAULTS_LITERAL,
     alias    |-> [d \in Stored |-> FALSE]]

\* mutant: the value from surface is stored as it is, ramp key or not
HandleDataFromSurface_NoRamp(st, device, key, value) ==
    ItemAssign(st, device, key, value)

\* mutant: a ramp step never goes past the target
HandleDataFromSurface_Clamped(st, device, key, value) ==
    IF key \in RAMP_KEYS
    THEN LET difference == Data(st, device)[key] - value
         IN  IF difference > 0
             THEN ItemAssign(st, device, key,
                             IF difference < RAMP_RATE THEN value ELSE Data(st, device)[key] - RAMP_RATE)
             ELSE IF difference < 0
                  THEN ItemAssign(st, device, key,
                                  IF -difference < RAMP_RATE THEN value ELSE Data(st, device)[key] + RAMP_RATE)
                  ELSE st
    ELSE ItemAssign(st, device, key, value)

\* mutant: the value from surface is also recorded in the surface dictionary
HandleDataFromSurface_AlsoSurface(st, device, key, value) ==
    IF key \in RAMP_KEYS
    THEN LET difference == Data(st, device)[key] - value
         IN  IF difference > 0
             THEN ItemAssign(st, device, key, Data(st, device)[key] - RAMP_RATE)
             ELSE IF difference < 0
                  THEN ItemAssign(st, device, key, Data(st, device)[key] + RAMP_RATE)
                  ELSE st
    ELSE ItemAssign(ItemAssign(st, device, key, value), SURFACE, "S_B", value)

\* mutant: a ramp step is twice RAMP_RATE
HandleDataFromSurface_DoubleStep(st, device, key, value) ==
    IF key \in RAMP_KEYS
    THEN LET difference == Data(st, device)[key] - value
         IN  IF difference > 0
             THEN ItemAssign(st, device, key, Data(st, device)[key] - RAMP_RATE - RAMP_RATE)
             ELSE IF difference < 0
                  THEN ItemAssign(st, device, key, Data(st, device)[key] + RAMP_RATE + RAMP_RATE)
                  ELSE st
    ELSE ItemAssign(st, device, key, value)

HandleDataFromSurface(st, device, key, value) ==
    IF key \in RAMP_KEYS
    THEN LET difference == Data(st, device)[key] - value
         IN  IF difference > 0
             THEN ItemAssign(st, device, key, Data(st, device)[key] - RAMP_RATE)
             ELSE IF difference < 0
                  THEN ItemAssign(st, device, key, Data(st, device)[key] + RAMP_RATE)
                  ELSE st
    ELSE ItemAssign(st, device, key, value)

\* mutant: an unknown key raises KeyError only once every other key has been handled
RECURSIVE DispatchFromSurface_RaisesAtEnd(_, _)
DispatchFromSurface_RaisesAtEnd(st, kw) ==
    IF kw = <<>>
    THEN [st |-> st, err |-> "none"]
    ELSE LET key == Head(kw)[1]
             value == Head(kw)[2]
         IN  IF key \in DOMAIN Data(st, ARDUINO_A)
             THEN DispatchFromSurface_RaisesAtEnd(HandleDataFromSurface(st, ARDUINO_A, key, value), Tail(kw))
             ELSE IF key \in DOMAIN Data(st, ARDUINO_B)
                  THEN DispatchFromSurface_RaisesAtEnd(HandleDataFromSurface(st, ARDUINO_B, key, value), Tail(kw))
                  ELSE [st |-> DispatchFromSurface_RaisesAtEnd(st, Tail(kw)).st, err |-> "KeyError"]

\* mutant: a key no Arduino dictionary has is skipped instead of raising KeyError
RECURSIVE DispatchFromSurface_SkipUnknown(_, _)
DispatchFromSurface_SkipUnknown(st, kw) ==
    IF kw = <<>>
    THEN [st |-> st, err |-> "none"]
    ELSE LET key == Head(kw)[1]
             value == Head(kw)[2]
         IN  IF key \in DOMAIN Data(st, ARDUINO_A)
             THEN DispatchFromSurface_SkipUnknown(HandleDataFromSurface(st, ARDUINO_A, key, value), Tail(kw))
             ELSE IF key \in DOMAIN Data(st, ARDUINO_B)
                  THEN DispatchFromSurface_SkipUnknown(HandleDataFromSurface(st, ARDUINO_B, key, value), Tail(kw))
                  ELSE DispatchFromSurface_SkipUnknown(st, Tail(kw))

\* the loop `for key, value in kwargs.items()` of the surface branch
RECURSIVE DispatchFromSurface(_, _)
DispatchFromSurface(st, kw) ==
    IF kw = <<>>
    THEN [st |-> st, err |-> "none"]
    ELSE LET key == Head(kw)[1]
             value == Head(kw)[2]
         IN  IF key \in DOMAIN Data(st, ARDUINO_A)
             THEN DispatchFromSurface(HandleDataFromSurface(st, ARDUINO_A, key, value), Tail(kw))
             ELSE IF key \in DOMAIN Data(st, ARDUINO_B)
                  THEN DispatchFromSurface(HandleDataFromSurface(st, ARDUINO_B, key, value), Tail(kw))
                  ELSE [st |-> st, err |-> "KeyError"]

\* mutant: only the first item of kwargs reaches the surface dictionary
OverrideSurface_FirstOnly(st, kw) ==
    IF kw = <<>>
    THEN st
    ELSE ItemAssign(st, SURFACE, Head(kw)[1], Head(kw)[2])

\* the loop `for key, value in kwargs.items()` of the Arduino branch
RECURSIVE OverrideSurface(_, _)
OverrideSurface(st, kw) ==
    IF kw = <<>>
    THEN st
    ELSE OverrideSurface(ItemAssign(st, SURFACE, Head(kw)[1], Head(kw)[2]), Tail(kw))

\* the `set_default` branch: _data[d] is bound to the object DEFAULTS[d], not to a copy
\* (the copy made in __init__ loses its last reference and is gone)
SetDefault(st) ==
    [st EXCEPT !.alias = [d \in Stored |-> IF d \in Arduinos THEN TRUE ELSE @[d]],
               !.copies = [d \in Stored |-> IF d \in Arduinos THEN EmptyDict ELSE @[d]]]

\* mutant: the Arduino branch assigns without checking the keys against the surface dictionary
DMSet_NoSubsetCheck(st, from_device, set_default, kw) ==
    IF from_device = SURFACE
    THEN IF set_default
         THEN [st |-> SetDefault(st), err |-> "none"]
         ELSE DispatchFromSurface(st, kw)
    ELSE IF set_default
         THEN [st |-> st, err |-> "KeyError"]
         ELSE [st |-> OverrideSurface(st, kw), err |-> "none"]

\* DataManager.set(from_device, set_default, **kwargs): the store it leaves and the error it raises
DMSet(st, from_device, set_default, kw) ==
    IF from_device = SURFACE
    THEN IF set_default
         THEN [st |-> SetDefault(st), err |-> "none"]
         ELSE DispatchFromSurface(st, kw)
    ELSE IF set_default
         THEN [st |-> st, err |-> "KeyError"]
         ELSE IF ~(KwKeys(kw) \subseteq DOMAIN Data(st, SURFACE))
              THEN [st |-> st, err |-> "KeyError"]
              ELSE [st |-> OverrideSurface(st, kw), err |-> "none"]

\* mutant: get reads the defaults instead of the stored values
DMGet_Defaults(st, device, args) ==
    IF device \notin Stored
    THEN [value |-> EmptyDict, err |-> "KeyError"]
    ELSE IF args = <<>>
         THEN [value |-> st.DEFAULTS[device], err |-> "none"]
         ELSE IF ~({args[i] : i \in DOMAIN args} \subseteq DOMAIN st.DEFAULTS[device])
              THEN [value |-> EmptyDict, err |-> "KeyError"]
              ELSE [value |-> [k \in {args[i] : i \in DOMAIN args} |-> st.DEFAULTS[device][k]],
                    err |-> "none"]

\* DataManager.get(device, *args): the mapping it returns and the error it raises
DMGet(st, device, args) ==
    IF device \notin Stored
    THEN [value |-> EmptyDict, err |-> "KeyError"]
    ELSE IF args = <<>>
         THEN [value |-> Data(st, device), err |-> "none"]
         ELSE IF ~({args[i] : i \in DOMAIN args} \subseteq DOMAIN Data(st, device))
              THEN [value |-> EmptyDict, err |-> "KeyError"]
              ELSE [value |-> [k \in {args[i] : i \in DOMAIN args} |-> Data(st, device)[k]],
                    err |-> "none"]

\* ------------------------------------------------------------------------
\* Inputs
\* ------------------------------------------------------------------------
\* every ramped value of the store lies within MaxRampSteps steps of idle
RampInBounds(st) ==
    \A d \in Arduinos : \A k \in (DOMAIN Data(st, d)) \cap RAMP_KEYS :
        /\ Data(st, d)[k] >= THRUSTER_IDLE - RAMP_RATE * MaxRampSteps
        /\ Data(st, d)[k] <= THRUSTER_IDLE + RAMP_RATE * MaxRampSteps

\* keyword arguments a surface client sends
SurfaceKwargs ==
    { <<>>,
      << <<"T_HFP", 1600>> >>,
      << <<"T_HFP", 1503>> >>,
      << <<"T_HFP", 1400>> >>,
      << <<"T_M", 1497>> >>,
      << <<"M_G", 1600>> >>,
      << <<"T_HFP", 1503>>, <<"M_G", 1600>> >>,
      << <<"nonexistent_key", 1>> >>,
      << <<"M_G", 1600>>, <<"nonexistent_key", 1>> >>,
      << <<"nonexistent_key", 1>>, <<"T_HFP", 1600>> >>,
      << <<"S_A", 5>> >> }

\* keyword arguments an Arduino sends (the "ID" field already removed)
ArduinoKwargs ==
    { <<>>,
      << <<"S_A", 5>> >>,
      << <<"S_A", 5>>, <<"S_B", 9>> >>,
      << <<"A_A", TRUE>> >>,
      << <<"nonexistent_key", 1>> >>,
      << <<"S_B", 9>>, <<"nonexistent_key", 1>> >>,
      << <<"T_HFP", 1600>> >> }

\* the calls of DataManager.set tried: <<from_device, set_default, kwargs>>
SetInputs ==
    ({SURFACE} \X {FALSE} \X SurfaceKwargs)
    \cup ({SURFACE} \X {TRUE} \X {<<>>, << <<"ignored", 1>> >>})
    \cup (Arduinos \X {FALSE} \X ArduinoKwargs)
    \cup (Arduinos \X {TRUE} \X {<<>>, << <<"S_A", 5>> >>})
    \cup ({UNASSIGNED} \X {FALSE} \X {<< <<"UNASSIGNED", TRUE>> >>})

\* the calls of DataManager.get tried: <<device, args>>
GetInputs ==
    (Stored \X {<<>>})
    \cup ({SURFACE} \X {<<"S_A">>, <<"A_A", "S_B">>, <<"T_HFP">>, <<"nonexistent_key">>})
    \cup (Arduinos \X {<<"T_HFP">>, <<"M_G", "nonexistent_key">>, <<"nonexistent_key">>})
    \cup ({UNASSIGNED} \X {<<>>})

NoCall ==
    [op |-> "none", device |-> UNASSIGNED, set_default |-> FALSE, kwargs |-> <<>>,
     args |-> <<>>, err |-> "none", value |-> EmptyDict]

SetCall(from_device, set_default, kw, err) ==
    [op |-> "set", device |-> from_device, set_default |-> set_default, kwargs |-> kw,
     args |-> <<>>, err |-> err, value |-> EmptyDict]

GetCall(device, args, r) ==
    [op |-> "get", device |-> device, set_default |-> FALSE, kwargs |-> <<>>,
     args |-> args, err |-> r.err, value |-> r.value]

\* a raw inbound message: nothing, bytes that do not decode, bytes that decode to
\* something that is not a mapping, or bytes that decode to the mapping kw
NoData == [kind |-> "empty", kw |-> <<>>, value |-> EmptyDict]
Garbage == [kind |-> "garbage", kw |-> <<>>, value |-> EmptyDict]
NonDict == [kind |-> "nondict", kw |-> <<>>, value |-> EmptyDict]
Mapping(kw) == [kind |-> "map", kw |-> kw, value |-> EmptyDict]
\* the local `data` once it holds the dict DataManager.get returned
Fetched(d) == [kind |-> "dict", kw |-> <<>>, value |-> d]

\* what a surface client sends in one message
SurfaceMessages ==
    { Garbage,
      NonDict,
      Mapping(<<>>),
      Mapping(<< <<"T_HFP", 1600>> >>),
      Mapping(<< <<"T_HFP", 1600>>, <<"nonexistent_key", 1>> >>),
      Mapping(<< <<"set_default", TRUE>> >>) }

\* what an Arduino sends in one line once it is identified; NoData is a read that timed out
ArduinoMessages ==
    { NoData,
      Garbage,
      Mapping(<< <<"ID", "A_A">> >>),
      Mapping(<< <<"ID", "A_B">>, <<"S_A", 5>> >>),
      Mapping(<< <<"S_A", 5>> >>),
      Mapping(<< <<"ID", "A_A">>, <<"nonexistent_key", 1>> >>) }

\* what an Arduino sends as its first line: also the IDs that name no Arduino
HandshakeMessages ==
    ArduinoMessages \cup
    { Mapping(<< <<"ID", "S">> >>),
      Mapping(<< <<"ID", "UNASSIGNED">> >>),
      Mapping(<< <<"ID", "arduino">> >>) }

\* the value bound to `key` in the mapping kw (key is one of its keys)
KwValue(kw, key) == kw[CHOOSE i \in DOMAIN kw : kw[i][1] = key][2]

\* the mapping kw without `key`
KwWithout(kw, key) == SelectSeq(kw, LAMBDA item : item[1] # key)

\* dm.set(from_device, **data): Python binds the keys of data that name a parameter of
\* set to that parameter, the rest to kwargs; a second value for from_device is a TypeError
BindSet(from_device, data) ==
    IF "from_device" \in KwKeys(data) \/ "self" \in KwKeys(data)
    THEN [err |-> "TypeError", set_default |-> FALSE, kw |-> <<>>]
    ELSE IF "set_default" \in KwKeys(data)
         THEN [err |-> "none", set_default |-> KwValue(data, "set_default"),
               kw |-> KwWithout(data, "set_default")]
         ELSE [err |-> "none", set_default |-> FALSE, kw |-> data]

SetFromMessage(st, from_device, data) ==
    LET b == BindSet(from_device, data)
    IN  IF b.err # "none"
        THEN [st |-> st, err |-> b.err]
        ELSE DMSet(st, from_device, b.set_default, b.kw)

\* ------------------------------------------------------------------------
\* Initial state: DataManager(), Server(dm), before Server.start() runs a thread
\* ------------------------------------------------------------------------
Init ==
    /\ DEFAULTS = DataManagerInit.DEFAULTS
    /\ copies = DataManagerInit.copies
    /\ alias = DataManagerInit.alias
    /\ res = NoCall
    /\ s_sup = "accept"
    /\ s_thread = "new"
    /\ s_client = "None"
    /\ s_data = NoData
    /\ a_sup = [p \in ARDUINO_PORTS |-> "connect"]
    /\ a_thread = [p \in ARDUINO_PORTS |-> "new"]
    /\ a_device = [p \in ARDUINO_PORTS |-> UNASSIGNED]
    /\ a_open = [p \in ARDUINO_PORTS |-> FALSE]
    /\ a_data = [p \in ARDUINO_PORTS |-> NoData]

\* the store after a DataManager.set call returned or raised
StoreBecomes(st) ==
    /\ DEFAULTS' = st.DEFAULTS
    /\ copies' = st.copies
    /\ alias' = st.alias

\* ------------------------------------------------------------------------
\* The DataManager driven directly: any sequence of get and set calls
\* ------------------------------------------------------------------------
StoreSet(from_device, set_default, kw) ==
    LET r == DMSet(Store, from_device, set_default, kw)
    IN  /\ RampInBounds(r.st)
        /\ StoreBecomes(r.st)
        /\ res' = SetCall(from_device, set_default, kw, r.err)
        /\ UNCHANGED <<surfaceVars, arduinoVars>>

StoreGet(device, args) ==
    /\ res' = GetCall(device, args, DMGet(Store, device, args))
    /\ UNCHANGED <<storeVars, surfaceVars, arduinoVars>>

StoreNext ==
    \/ \E c \in SetInputs : StoreSet(c[1], c[2], c[3])
    \/ \E c \in GetInputs : StoreGet(c[1], c[2])

StoreSpec == Init /\ [][StoreNext]_vars

\* ------------------------------------------------------------------------
\* The DataManager driven towards one target: after an optional reset, the same call
\* set(Device.SURFACE, key=target) again and again, for a ramp key and a fixed target
\* ------------------------------------------------------------------------
RampTargets == (THRUSTER_IDLE - MaxTargetDistance) .. (THRUSTER_IDLE + MaxTargetDistance)

\* the call made again and again: res holds it from the first call on
Targeted == res.op = "set" /\ res.device = SURFACE /\ ~res.set_default

RampReset ==
    /\ res.op = "none"
    /\ StoreBecomes(DMSet(Store, SURFACE, TRUE, <<>>).st)
    /\ res' = SetCall(SURFACE, TRUE, <<>>, "none")
    /\ UNCHANGED <<surfaceVars, arduinoVars>>

RampFirst(key, target) ==
    /\ ~Targeted
    /\ LET r == DMSet(Store, SURFACE, FALSE, << <<key, target>> >>)
       IN  /\ StoreBecomes(r.st)
           /\ res' = SetCall(SURFACE, FALSE, << <<key, target>> >>, r.err)
    /\ UNCHANGED <<surfaceVars, arduinoVars>>

RampAgain ==
    /\ Targeted
    /\ LET r == DMSet(Store, SURFACE, FALSE, res.kwargs)
       IN  /\ StoreBecomes(r.st)
           /\ res' = SetCall(SURFACE, FALSE, res.kwargs, r.err)
    /\ UNCHANGED <<surfaceVars, arduinoVars>>

RampNext ==
    \/ RampReset
    \/ \E key \in {"T_HFP", "T_M"}, target \in RampTargets : RampFirst(key, target)
    \/ RampAgain

\* the calls are repeated: the first one is made, and the next one always follows
RampSpec ==
    /\ Init
    /\ [][RampNext]_vars
    /\ WF_vars(\E key \in {"T_HFP", "T_M"}, target \in RampTargets : RampFirst(key, target))
    /\ WF_vars(RampAgain)

\* ------------------------------------------------------------------------
\* _SurfaceConnection and Server._surface_thread (server.py)
\* ------------------------------------------------------------------------
\* Thread.is_alive(): started and not yet finished
SurfaceConnected == s_thread \in {"recv", "get", "send"}

\* accept(): a client connects and the communication thread is started
AcceptClient ==
    /\ s_sup = "accept"
    /\ s_client' = "open"
    /\ IF s_thread = "new"
       THEN s_thread' = "recv" /\ s_sup' = "poll"
       ELSE s_thread' = s_thread /\ s_sup' = "stopped"
    /\ UNCHANGED <<storeVars, res, s_data, arduinoVars>>

\* accept(): socket.accept raises OSError, the handler calls cleanup()
AcceptFails ==
    /\ s_sup = "accept"
    /\ s_sup' = "accept_cleanup"
    /\ UNCHANGED <<storeVars, res, s_thread, s_client, s_data, arduinoVars>>

\* _surface_thread: `while connected: sleep` ends, cleanup() is called
SurfacePollEnds ==
    /\ s_sup = "poll"
    /\ ~SurfaceConnected
    /\ s_sup' = "cleanup"
    /\ UNCHANGED <<storeVars, res, s_thread, s_client, s_data, arduinoVars>>

\* mutant: cleanup() replaces the thread but does not reset the Arduino dictionaries
CleanupReset_NoReset ==
    /\ s_sup \in {"cleanup", "accept_cleanup"}
    /\ s_thread' = "new"
    /\ s_sup' = IF s_sup = "cleanup" THEN "cleanup_close" ELSE "accept_cleanup_close"
    /\ UNCHANGED <<storeVars, res, s_client, s_data, arduinoVars>>

\* cleanup(), first half: dm.set(Device.SURFACE, set_default=True), then a new thread object
CleanupReset ==
    /\ s_sup \in {"cleanup", "accept_cleanup"}
    /\ StoreBecomes(DMSet(Store, SURFACE, TRUE, <<>>).st)
    /\ s_thread' = "new"
    /\ s_sup' = IF s_sup = "cleanup" THEN "cleanup_close" ELSE "accept_cleanup_close"
    /\ UNCHANGED <<res, s_client, s_data, arduinoVars>>

\* where cleanup() returns to: the loop of _surface_thread, or the end of accept()
AfterCleanup == IF s_sup = "cleanup_close" THEN "accept" ELSE "poll"

\* cleanup(), second half: _client_socket.shutdown(SHUT_RDWR); _client_socket.close()
\* shutdown raises OSError on a socket that is closed, and may raise it on an open one
\* (peer gone); close() is then skipped.  With no client socket yet the attribute
\* lookup on None raises AttributeError, which `except OSError` does not catch.
CleanupClose ==
    /\ s_sup \in {"cleanup_close", "accept_cleanup_close"}
    /\ \/ /\ s_client = "None"
          /\ s_sup' = "stopped"
          /\ s_client' = s_client
       \/ /\ s_client = "open"
          /\ s_client' = "closed"
          /\ s_sup' = AfterCleanup
       \/ /\ s_client \in {"open", "closed"}
          /\ s_client' = s_client
          /\ s_sup' = AfterCleanup
    /\ UNCHANGED <<storeVars, res, s_thread, s_data, arduinoVars>>

\* the communication thread returns or dies of an uncaught exception; its locals go
SurfaceThreadEnds == s_thread' = "dead" /\ s_data' = NoData

\* mutant: a message that does not decode ends the thread, as it does for an Arduino
SurfaceRecv_DecodeFailureEnds(msg) ==
    /\ s_thread = "recv"
    /\ IF msg.kind = "map" /\ msg.kw # <<>>
       THEN LET r == SetFromMessage(Store, SURFACE, msg.kw)
            IN  /\ RampInBounds(r.st)
                /\ StoreBecomes(r.st)
                /\ IF r.err = "none"
                   THEN s_thread' = "get" /\ s_data' = msg
                   ELSE SurfaceThreadEnds
       ELSE /\ s_thread' = IF msg.kind = "garbage" THEN "dead" ELSE "get"
            /\ s_data' = msg
            /\ UNCHANGED storeVars
    /\ UNCHANGED <<res, s_sup, s_client, arduinoVars>>

\* _communicate: recv returns a non-empty message; decode it, and for a non-empty
\* dict dm.set(Device.SURFACE, **data).  An error raised by set is not an OSError:
\* it ends the thread.
SurfaceRecv(msg) ==
    /\ s_thread = "recv"
    /\ IF msg.kind = "map" /\ msg.kw # <<>>
       THEN LET r == SetFromMessage(Store, SURFACE, msg.kw)
            IN  /\ RampInBounds(r.st)
                /\ StoreBecomes(r.st)
                /\ IF r.err = "none"
                   THEN s_thread' = "get" /\ s_data' = msg
                   ELSE SurfaceThreadEnds
       ELSE /\ s_thread' = "get"
            /\ s_data' = msg
            /\ UNCHANGED storeVars
    /\ UNCHANGED <<res, s_sup, s_client, arduinoVars>>

\* _communicate: recv returns b"" (peer closed) or raises OSError; sendall raises OSError
SurfaceLost ==
    /\ s_thread \in {"recv", "send"}
    /\ SurfaceThreadEnds
    /\ UNCHANGED <<storeVars, res, s_sup, s_client, arduinoVars>>

\* _communicate: data = self._dm.get(Device.SURFACE)
SurfaceGet ==
    /\ s_thread = "get"
    /\ s_data' = Fetched(DMGet(Store, SURFACE, <<>>).value)
    /\ s_thread' = "send"
    /\ UNCHANGED <<storeVars, res, s_sup, s_client, arduinoVars>>

\* _communicate: self._client_socket.sendall(msgpack.packb(data)) hands the client
\* s_data.value; the thread then blocks in recv
SurfaceSend ==
    /\ s_thread = "send"
    /\ s_thread' = "recv"
    /\ UNCHANGED <<storeVars, res, s_sup, s_client, s_data, arduinoVars>>

SurfaceNext ==
    \/ AcceptClient
    \/ AcceptFails
    \/ SurfacePollEnds
    \/ CleanupReset
    \/ CleanupClose
    \/ \E msg \in SurfaceMessages : SurfaceRecv(msg)
    \/ SurfaceLost
    \/ SurfaceGet
    \/ SurfaceSend

\* ------------------------------------------------------------------------
\* Arduino (arduino.py) and Server._arduino_thread (server.py), one per port
\* ------------------------------------------------------------------------
\* Thread.is_alive()
ArduinoConnected(p) == a_thread[p] \in {"handshake", "process", "get", "write"}

\* the communication thread of port p returns or dies of an uncaught exception; its locals go
ThreadEnds(p) ==
    /\ a_thread' = [a_thread EXCEPT ![p] = "dead"]
    /\ a_data' = [a_data EXCEPT ![p] = NoData]

\* connect(): serial.open() succeeds and the communication thread is started.
\* (While open() raises SerialException, or while the port is still open, the loop
\* of connect() goes round without changing anything.)
ArduinoConnect(p) ==
    /\ a_sup[p] = "connect"
    /\ ~ArduinoConnected(p)
    /\ ~a_open[p]
    /\ a_open' = [a_open EXCEPT ![p] = TRUE]
    /\ IF a_thread[p] = "new"
       THEN /\ a_thread' = [a_thread EXCEPT ![p] = "handshake"]
            /\ a_sup' = [a_sup EXCEPT ![p] = "poll"]
       ELSE /\ a_thread' = a_thread
            /\ a_sup' = [a_sup EXCEPT ![p] = "stopped"]
    /\ UNCHANGED <<storeVars, res, surfaceVars, a_device, a_data>>

\* mutant: disconnect() forgets the device before it looks at it, so no flag is cleared
ArduinoDisconnect_ForgetFirst(p, closed) ==
    /\ a_sup[p] = "poll"
    /\ ~ArduinoConnected(p)
    /\ a_open' = [a_open EXCEPT ![p] = IF @ THEN ~closed ELSE FALSE]
    /\ a_thread' = [a_thread EXCEPT ![p] = "new"]
    /\ a_data' = [a_data EXCEPT ![p] = NoData]
    /\ a_device' = [a_device EXCEPT ![p] = UNASSIGNED]
    /\ a_sup' = [a_sup EXCEPT ![p] = "connect"]
    /\ UNCHANGED <<storeVars, res, surfaceVars>>

\* disconnect(), called by reconnect() once the thread is seen not alive:
\* close the port (closed |-> the port is closed afterwards; a SerialException of
\* close() is swallowed and may leave it open), new thread object (the line the
\* old thread rejected goes with it), clear the
\* connection flag of a known device, forget the device.  A KeyError of dm.set
\* is not caught by disconnect, reconnect or _arduino_thread.
ArduinoDisconnect(p, closed) ==
    /\ a_sup[p] = "poll"
    /\ ~ArduinoConnected(p)
    /\ a_open' = [a_open EXCEPT ![p] = IF @ THEN ~closed ELSE FALSE]
    /\ a_thread' = [a_thread EXCEPT ![p] = "new"]
    /\ IF a_device[p] # UNASSIGNED
       THEN LET r == DMSet(Store, a_device[p], FALSE, << <<a_device[p], FALSE>> >>)
            IN  /\ StoreBecomes(r.st)
                /\ IF r.err = "none"
                   THEN /\ a_device' = [a_device EXCEPT ![p] = UNASSIGNED]
                        /\ a_sup' = [a_sup EXCEPT ![p] = "connect"]
                   ELSE /\ a_device' = a_device
                        /\ a_sup' = [a_sup EXCEPT ![p] = "stopped"]
       ELSE /\ a_device' = a_device
            /\ a_sup' = [a_sup EXCEPT ![p] = "connect"]
            /\ UNCHANGED storeVars
    /\ a_data' = [a_data EXCEPT ![p] = NoData]
    /\ UNCHANGED <<res, surfaceVars>>

\* Device(unpacked["ID"]): the member whose value is the ID, if the message is a
\* mapping with an ID that is the value of a member
HasID(msg) == msg.kind = "map" /\ "ID" \in KwKeys(msg.kw)
ValidID(msg) == HasID(msg) /\ KwValue(msg.kw, "ID") \in Device

\* _communicate, first loop: a non-empty line is read (an empty one is skipped).
\* Undecodable data, a missing or invalid ID and a KeyError of dm.set all end the
\* thread; self._device is assigned before dm.set is called.
ArduinoHandshake(p, msg) ==
    /\ a_thread[p] = "handshake"
    /\ msg.kind # "empty"
    /\ IF ValidID(msg)
       THEN LET device == KwValue(msg.kw, "ID")
                r == DMSet(Store, device, FALSE, << <<device, TRUE>> >>)
            IN  /\ a_device' = [a_device EXCEPT ![p] = device]
                /\ StoreBecomes(r.st)
                /\ IF r.err = "none"
                   THEN /\ a_thread' = [a_thread EXCEPT ![p] = "process"]
                        /\ a_data' = [a_data EXCEPT ![p] = msg]
                   ELSE ThreadEnds(p)
       ELSE /\ ThreadEnds(p)
            /\ UNCHANGED <<storeVars, a_device>>
    /\ UNCHANGED <<res, surfaceVars, a_sup, a_open>>

\* _communicate: read_until, write or reset_output_buffer raises SerialException
ArduinoLost(p) ==
    /\ a_thread[p] \in {"handshake", "write"} \/ (a_thread[p] = "process" /\ a_data[p].kind = "empty")
    /\ ThreadEnds(p)
    /\ UNCHANGED <<storeVars, res, surfaceVars, a_sup, a_device, a_open>>

\* mutant: a line that does not decode is skipped like a read that timed out
ArduinoProcess_SkipsUndecodable(p) ==
    /\ a_thread[p] = "process"
    /\ IF a_data[p].kind \in {"empty", "garbage"}
       THEN /\ a_thread' = [a_thread EXCEPT ![p] = "get"]
            /\ UNCHANGED <<storeVars, a_data>>
       ELSE IF ~HasID(a_data[p]) \/ KwValue(a_data[p].kw, "ID") # a_device[p]
            THEN /\ a_thread' = [a_thread EXCEPT ![p] = "dead"]
                 /\ UNCHANGED <<storeVars, a_data>>
            ELSE LET r == SetFromMessage(Store, a_device[p], KwWithout(a_data[p].kw, "ID"))
                 IN  /\ StoreBecomes(r.st)
                     /\ IF r.err = "none"
                        THEN /\ a_thread' = [a_thread EXCEPT ![p] = "get"]
                             /\ a_data' = [a_data EXCEPT ![p] = NoData]
                        ELSE ThreadEnds(p)
    /\ UNCHANGED <<res, surfaceVars, a_sup, a_device, a_open>>

\* _communicate, second loop, `if data:`: decode, check the ID, delete it and
\* dm.set(self._device, **data); `else:` reset_output_buffer().
\* After a failed decode data is still the raw line and the ID test on it ends the
\* thread; so does an error of dm.set, which nothing catches.  A line that fails the
\* ID test is left in a_data[p], unhandled.
ArduinoProcess(p) ==
    /\ a_thread[p] = "process"
    /\ IF a_data[p].kind = "empty"
       THEN /\ a_thread' = [a_thread EXCEPT ![p] = "get"]
            /\ UNCHANGED <<storeVars, a_data>>
       ELSE IF ~HasID(a_data[p]) \/ KwValue(a_data[p].kw, "ID") # a_device[p]
            THEN /\ a_thread' = [a_thread EXCEPT ![p] = "dead"]
                 /\ UNCHANGED <<storeVars, a_data>>
            ELSE LET r == SetFromMessage(Store, a_device[p], KwWithout(a_data[p].kw, "ID"))
                 IN  /\ StoreBecomes(r.st)
                     /\ IF r.err = "none"
                        THEN /\ a_thread' = [a_thread EXCEPT ![p] = "get"]
                             /\ a_data' = [a_data EXCEPT ![p] = NoData]
                        ELSE ThreadEnds(p)
    /\ UNCHANGED <<res, surfaceVars, a_sup, a_device, a_open>>

\* _communicate: the argument of the write, self._dm.get(self._device), is evaluated
ArduinoGet(p) ==
    /\ a_thread[p] = "get"
    /\ a_data' = [a_data EXCEPT ![p] = Fetched(DMGet(Store, a_device[p], <<>>).value)]
    /\ a_thread' = [a_thread EXCEPT ![p] = "write"]
    /\ UNCHANGED <<storeVars, res, surfaceVars, a_sup, a_device, a_open>>

\* _communicate: bytes(msgpack.packb(...) + "\n"), the argument of the write, raises
\* TypeError: packb returns bytes under Python 3 and bytes + str is not defined (nor is
\* bytes() of a str without an encoding).  Nothing catches it and the thread ends
\* before anything is written.  (ArduinoExchange follows the loop as it is written to
\* go on, with the packed line handed to the port.)
ArduinoPackFails(p) ==
    /\ a_thread[p] = "get"
    /\ ThreadEnds(p)
    /\ UNCHANGED <<storeVars, res, surfaceVars, a_sup, a_device, a_open>>

\* _communicate: self._serial.write hands the device a_data[p].value packed, with a
\* newline, then data = self._serial.read_until().strip(), which is empty on a timeout
ArduinoExchange(p, msg) ==
    /\ a_thread[p] = "write"
    /\ a_data' = [a_data EXCEPT ![p] = msg]
    /\ a_thread' = [a_thread EXCEPT ![p] = "process"]
    /\ UNCHANGED <<storeVars, res, surfaceVars, a_sup, a_device, a_open>>

ArduinoNext(p) ==
    \/ ArduinoConnect(p)
    \/ \E closed \in BOOLEAN : ArduinoDisconnect(p, closed)
    \/ \E msg \in HandshakeMessages : ArduinoHandshake(p, msg)
    \/ ArduinoLost(p)
    \/ ArduinoProcess(p)
    \/ ArduinoGet(p)
    \/ ArduinoPackFails(p)
    \/ \E msg \in ArduinoMessages : ArduinoExchange(p, msg)

\* ------------------------------------------------------------------------
\* Server.start(): the surface thread and one thread per port, running concurrently
\* ------------------------------------------------------------------------
Next ==
    \/ SurfaceNext
    \/ \E p \in ARDUINO_PORTS : ArduinoNext(p)

Spec == Init /\ [][Next]_vars

\* _arduino_thread sleeps CONNECTION_CHECK_DELAY between two tests of
\* arduino.connected and is scheduled again and again: once the communication thread
\* is dead the loop ends and reconnect() calls disconnect()
\* (Followed with a surface client whose messages leave the ramped values alone:
\* what the supervisors of the ports do does not depend on them.)
FairSurfaceMessages == { Garbage, Mapping(<< <<"M_G", 1600>> >>) }

FairNext ==
    \/ AcceptClient
    \/ AcceptFails
    \/ SurfacePollEnds
    \/ CleanupReset
    \/ CleanupClose
    \/ \E msg \in FairSurfaceMessages : SurfaceRecv(msg)
    \/ SurfaceLost
    \/ SurfaceGet
    \/ SurfaceSend
    \/ \E p \in ARDUINO_PORTS : ArduinoNext(p)

FairSpec ==
    /\ Init
    /\ [][FairNext]_vars
    /\ \A p \in ARDUINO_PORTS : WF_vars(\E closed \in BOOLEAN : ArduinoDisconnect(p, closed))

\* ------------------------------------------------------------------------
\* The sessions with Arduinos whose lines also carry a connection flag of the surface
\* dictionary (set takes any key of that dictionary from any Arduino), and a surface
\* client as in FairSpec
\* ------------------------------------------------------------------------
PresenceMessages ==
    { NoData,
      Mapping(<< <<"ID", "A_A">> >>),
      Mapping(<< <<"ID", "A_B">> >>),
      Mapping(<< <<"ID", "A_B">>, <<"A_A", TRUE>> >>),
      Mapping(<< <<"ID", "A_A">>, <<"A_A", FALSE>> >>) }

PresenceNext ==
    \/ AcceptClient
    \/ AcceptFails
    \/ SurfacePollEnds
    \/ CleanupReset
    \/ CleanupClose
    \/ \E msg \in FairSurfaceMessages : SurfaceRecv(msg)
    \/ SurfaceLost
    \/ SurfaceGet
    \/ SurfaceSend
    \/ \E p \in ARDUINO_PORTS :
          \/ ArduinoConnect(p)
          \/ \E closed \in BOOLEAN : ArduinoDisconnect(p, closed)
          \/ \E msg \in PresenceMessages : ArduinoHandshake(p, msg)
          \/ ArduinoLost(p)
          \/ ArduinoProcess(p)
          \/ ArduinoGet(p)
          \/ ArduinoPackFails(p)
          \/ \E msg \in PresenceMessages : ArduinoExchange(p, msg)

PresenceSpec == Init /\ [][PresenceNext]_vars

\* ------------------------------------------------------------------------
\* The DataManager called by the running sessions, statement by statement.
\* Spec takes every call of get and set as one step.  DataManager holds no lock and
\* the interpreter may switch threads between two statements, so RaceSpec follows the
\* loops of set one iteration at a time: s_data and a_data[p] then hold the items of
\* kwargs that are still to be assigned.  dict.copy() in get is a single call into
\* the interpreter and stays one step.
\* ------------------------------------------------------------------------
\* what the surface client sends in RaceSpec: both manipulator values of Arduino B at once
RaceSurfaceMessages ==
    { Mapping(<< <<"M_G", 1600>>, <<"M_C", 1600>> >>),
      Mapping(<< <<"M_G", 1500>>, <<"M_C", 1500>> >>) }

\* the first line of an Arduino in RaceSpec
RaceHandshakeMessages ==
    { Mapping(<< <<"ID", "A_A">> >>),
      Mapping(<< <<"ID", "A_B">> >>) }

\* the later lines of an Arduino in RaceSpec: both sensor values at once
RaceArduinoMessages ==
    { NoData,
      Mapping(<< <<"ID", "A_A">>, <<"S_A", 5>>, <<"S_B", 9>> >>),
      Mapping(<< <<"ID", "A_B">>, <<"S_A", 6>>, <<"S_B", 7>> >>) }

\* _communicate: recv returns a message, it decodes to a non-empty dict and
\* dm.set(Device.SURFACE, **data) is entered: the loop over kwargs is about to start
RaceSurfaceRecv(msg) ==
    /\ s_thread = "recv"
    /\ msg.kind = "map" /\ msg.kw # <<>>
    /\ LET b == BindSet(SURFACE, msg.kw)
       IN  /\ b.err = "none" /\ ~b.set_default
           /\ s_data' = Mapping(b.kw)
    /\ s_thread' = "dispatch"
    /\ UNCHANGED <<storeVars, res, s_sup, s_client, arduinoVars>>

\* set, surface branch: one iteration of `for key, value in kwargs.items()`, or the
\* end of the loop and the return to _communicate
RaceSurfaceDispatch ==
    /\ s_thread = "dispatch"
    /\ IF s_data.kw = <<>>
       THEN /\ s_thread' = "get"
            /\ UNCHANGED <<storeVars, s_data>>
       ELSE LET r == DispatchFromSurface(Store, <<Head(s_data.kw)>>)
            IN  /\ RampInBounds(r.st)
                /\ StoreBecomes(r.st)
                /\ IF r.err = "none"
                   THEN s_thread' = "dispatch" /\ s_data' = Mapping(Tail(s_data.kw))
                   ELSE SurfaceThreadEnds
    /\ UNCHANGED <<res, s_sup, s_client, arduinoVars>>

\* _communicate, second loop: the ID test, `del data["ID"]`, and
\* dm.set(self._device, **data) up to the subset test: the loop over kwargs is about
\* to start.  A read that timed out goes on to the write.
RaceArduinoProcess(p) ==
    /\ a_thread[p] = "process"
    /\ IF a_data[p].kind = "empty"
       THEN /\ a_thread' = [a_thread EXCEPT ![p] = "get"]
            /\ a_data' = a_data
       ELSE IF ~HasID(a_data[p]) \/ KwValue(a_data[p].kw, "ID") # a_device[p]
            THEN /\ a_thread' = [a_thread EXCEPT ![p] = "dead"]
                 /\ a_data' = a_data
            ELSE LET b == BindSet(a_device[p], KwWithout(a_data[p].kw, "ID"))
                 IN  IF b.err = "none" /\ ~b.set_default
                           /\ KwKeys(b.kw) \subseteq DOMAIN Data(Store, SURFACE)
                     THEN /\ a_thread' = [a_thread EXCEPT ![p] = "assign"]
                          /\ a_data' = [a_data EXCEPT ![p] = Mapping(b.kw)]
                     ELSE ThreadEnds(p)
    /\ UNCHANGED <<storeVars, res, surfaceVars, a_sup, a_device, a_open>>

\* set, Arduino branch: one iteration of `for key, value in kwargs.items()`, or the
\* end of the loop and the return to _communicate
RaceArduinoAssign(p) ==
    /\ a_thread[p] = "assign"
    /\ IF a_data[p].kw = <<>>
       THEN /\ a_thread' = [a_thread EXCEPT ![p] = "get"]
            /\ a_data' = [a_data EXCEPT ![p] = NoData]
            /\ UNCHANGED storeVars
       ELSE /\ StoreBecomes(OverrideSurface(Store, <<Head(a_data[p].kw)>>))
            /\ a_data' = [a_data EXCEPT ![p] = Mapping(Tail(@.kw))]
            /\ a_thread' = a_thread
    /\ UNCHANGED <<res, surfaceVars, a_sup, a_device, a_open>>

RaceNext ==
    \/ AcceptClient
    \/ \E msg \in RaceSurfaceMessages : RaceSurfaceRecv(msg)
    \/ RaceSurfaceDispatch
    \/ SurfaceGet
    \/ SurfaceSend
    \/ \E p \in ARDUINO_PORTS :
          \/ ArduinoConnect(p)
          \/ \E msg \in RaceHandshakeMessages : ArduinoHandshake(p, msg)
          \/ RaceArduinoProcess(p)
          \/ RaceArduinoAssign(p)
          \/ ArduinoGet(p)
          \/ ArduinoPackFails(p)
          \/ \E msg \in RaceArduinoMessages : ArduinoExchange(p, msg)

RaceSpec == Init /\ [][RaceNext]_vars

\* ------------------------------------------------------------------------
\* Properties of the DataManager (checked under StoreSpec)
\* ------------------------------------------------------------------------
SchemaKeys(device) == DOMAIN DEFAULTS_LITERAL[device]
ArduinoSchemaKeys == SchemaKeys(ARDUINO_A) \cup SchemaKeys(ARDUINO_B)

\* the step is a call set(Device.SURFACE, ...) without set_default
SurfaceSetStep == res'.op = "set" /\ res'.device = SURFACE /\ ~res'.set_default

\* the Arduino dictionary that holds key
Owner(key) == IF key \in SchemaKeys(ARDUINO_A) THEN ARDUINO_A ELSE ARDUINO_B

\* C1: after any sequence of calls, set(Device.SURFACE, set_default=True, **values)
\* leaves every Arduino dictionary equal to the defaults the program started with,
\* whatever values holds.
C1_ResetRestoresStartupDefaults ==
    [][(res'.op = "set" /\ res'.device = SURFACE /\ res'.set_default)
        => \A d \in Arduinos : Data(Store', d) = DEFAULTS_LITERAL[d]]_vars

\* C2: in every reachable state the key set of every stored dictionary, and of the
\* dictionary a get without arguments returns, is the key set of that device's
\* defaults: no set call, failing or not, reset or not, adds or removes a key.
C2_KeySetsAreSchemaKeySets ==
    /\ \A d \in Stored : DOMAIN Data(Store, d) = SchemaKeys(d)
    /\ (res.op = "get" /\ res.err = "none" /\ res.args = <<>>)
          => DOMAIN res.value = SchemaKeys(res.device)

C2_Witness ==
    /\ alias[ARDUINO_A]
    /\ Data(Store, ARDUINO_B)["M_G"] = 1600
    /\ Data(Store, SURFACE)["S_A"] = 5
    /\ res.op = "set" /\ res.err = "KeyError" /\ res.device = ARDUINO_A
    /\ res.kwargs = << <<"S_B", 9>>, <<"nonexistent_key", 1>> >>

\* C3: a call set(Device.SURFACE, **values) moves the stored value of every ramp key
\* of values by at most RAMP_RATE, whatever the target is.
C3_RampStepAtMostRampRate ==
    [][SurfaceSetStep =>
        \A i \in DOMAIN res'.kwargs :
            LET key == res'.kwargs[i][1]
                old == Data(Store, Owner(key))[key]
                new == Data(Store', Owner(key))[key]
            IN  key \in RAMP_KEYS \cap ArduinoSchemaKeys
                    => (new - old <= RAMP_RATE /\ old - new <= RAMP_RATE)]_vars

C3_Witness ==
    /\ res.op = "set" /\ res.device = SURFACE /\ ~res.set_default
    /\ res.kwargs = << <<"T_HFP", 1600>> >>
    /\ Data(Store, ARDUINO_A)["T_HFP"] = THRUSTER_IDLE + RAMP_RATE

\* C4: a successful call set(Device.SURFACE, **values) leaves a ramp key of values at
\* current - RAMP_RATE when current > target, at current + RAMP_RATE when
\* current < target and at current when they are equal; it is never clamped to the
\* target (1500, 1502, 1504 for the target 1503).
C4_RampStepIsExact ==
    [][(SurfaceSetStep /\ res'.err = "none") =>
        \A i \in DOMAIN res'.kwargs :
            LET key == res'.kwargs[i][1]
                target == res'.kwargs[i][2]
                old == Data(Store, Owner(key))[key]
                new == Data(Store', Owner(key))[key]
            IN  key \in RAMP_KEYS \cap ArduinoSchemaKeys
                    => new = (IF old > target THEN old - RAMP_RATE
                              ELSE IF old < target THEN old + RAMP_RATE
                              ELSE old)]_vars

C4_Witness ==
    /\ res.op = "set" /\ res.device = SURFACE /\ res.err = "none"
    /\ res.kwargs = << <<"T_HFP", 1503>> >>
    /\ Data(Store, ARDUINO_A)["T_HFP"] = 1504

\* C5: a call set(X, **values) of an Arduino X whose keys are all keys of the surface
\* dictionary succeeds, stores every value as it is in the surface dictionary (no
\* ramping), and the same call made again leaves the store as it is.
C5_ArduinoSetAssignsDirectly ==
    [][(res'.op = "set" /\ res'.device \in Arduinos /\ ~res'.set_default
            /\ KwKeys(res'.kwargs) \subseteq SchemaKeys(SURFACE))
        => /\ res'.err = "none"
           /\ \A i \in DOMAIN res'.kwargs :
                  Data(Store', SURFACE)[res'.kwargs[i][1]] = res'.kwargs[i][2]
           /\ DMSet(Store', res'.device, FALSE, res'.kwargs) = [st |-> Store', err |-> "none"]
           /\ \A d \in Arduinos : Data(Store', d) = Data(Store, d)]_vars

C5_Witness ==
    /\ res.op = "set" /\ res.device = ARDUINO_B /\ res.err = "none"
    /\ res.kwargs = << <<"S_A", 5>>, <<"S_B", 9>> >>
    /\ Data(Store, SURFACE)["S_A"] = 5
    /\ Data(Store, SURFACE)["S_B"] = 9

\* C6: a call with an unknown key raises KeyError: set(Device.SURFACE, **values) with a
\* key no Arduino has, set(X, **values) of an Arduino X with a key the surface
\* dictionary lacks, get(device, *keys) with a key the device's dictionary lacks.
C6_UnknownKeysRaiseKeyError ==
    /\ (res.op = "set" /\ res.device = SURFACE /\ ~res.set_default
            /\ ~(KwKeys(res.kwargs) \subseteq ArduinoSchemaKeys))
          => res.err = "KeyError"
    /\ (res.op = "set" /\ res.device \in Arduinos
            /\ ~(KwKeys(res.kwargs) \subseteq SchemaKeys(SURFACE)))
          => res.err = "KeyError"
    /\ (res.op = "get" /\ res.device \in Stored
            /\ ~({res.args[i] : i \in DOMAIN res.args} \subseteq SchemaKeys(res.device)))
          => res.err = "KeyError"

C6_Witness ==
    /\ res.op = "set" /\ res.device = SURFACE /\ ~res.set_default
    /\ res.kwargs = << <<"M_G", 1600>>, <<"nonexistent_key", 1>> >>
    /\ res.err = "KeyError"

\* ------------------------------------------------------------------------
\* Properties of the sessions and their threads (checked under Spec)
\* ------------------------------------------------------------------------
\* the step in which the surface thread receives msg and has set return normally
SurfaceApplies(msg) == s_thread = "recv" /\ s_thread' = "get" /\ s_data' = msg

\* the step in which sendall hands s_data.value to the client
SurfaceSendStep == s_thread = "send" /\ s_thread' = "recv"

\* C7 as claimed: {T_HFP: 1600} received while T_HFP of Arduino A is 1500 leaves it at
\* 1502 before the reply is sent, and the reply sent is the surface dictionary as it is
\* at the moment of the send.
C7_ReplyIsSurfaceDictionaryAtSend ==
    [][/\ (SurfaceApplies(Mapping(<< <<"T_HFP", 1600>> >>))
              /\ Data(Store, ARDUINO_A)["T_HFP"] = 1500)
          => Data(Store', ARDUINO_A)["T_HFP"] = 1502
       /\ SurfaceSendStep => s_data.value = Data(Store, SURFACE)]_vars

\* C7 as amended: {T_HFP: 1600} received while T_HFP of Arduino A is 1500 leaves it at
\* 1502 before the reply is fetched and sent, and the reply sent is the surface
\* dictionary as get(Device.SURFACE) returned it after that set: what an Arduino
\* thread writes between that get and the send is not in it.
C7_ReplyIsSurfaceDictionaryAtGet ==
    [][/\ (SurfaceApplies(Mapping(<< <<"T_HFP", 1600>> >>))
              /\ Data(Store, ARDUINO_A)["T_HFP"] = 1500)
          => Data(Store', ARDUINO_A)["T_HFP"] = 1502
       /\ (s_thread = "get" /\ s_thread' = "send")
          => s_data' = Fetched(Data(Store, SURFACE))
       /\ (s_thread = "send" /\ s_thread' \in {"send", "recv"}) => s_data' = s_data
       /\ s_thread' = "send" => s_thread \in {"get", "send"}]_vars

C7_Witness ==
    /\ s_thread = "send"
    /\ Data(Store, ARDUINO_A)["T_HFP"] = 1502
    /\ s_data.kind = "dict"
    /\ s_data.value["A_A"]
    /\ ~Data(Store, SURFACE)["A_A"]

\* a decoded line that lacks the ID or carries an ID other than the device bound
Mismatch(p) ==
    /\ a_data[p].kind = "map"
    /\ ~HasID(a_data[p]) \/ KwValue(a_data[p].kw, "ID") # a_device[p]

\* C8: once the thread of a port has bound an Arduino X, a decoded line without the ID
\* or with another ID ends the thread and nothing of that line reaches the
\* DataManager; the flag of X in the surface dictionary is then set to False, by the
\* disconnect that comes before the thread of the next handshake on that port exists.
C8_MismatchEndsSessionAndClearsFlag ==
    [][\A p \in ARDUINO_PORTS :
        /\ (a_thread[p] = "process" /\ a_thread'[p] # "process"
                /\ a_device[p] \in Arduinos /\ Mismatch(p))
              => (a_thread'[p] = "dead" /\ Store' = Store)
        /\ (a_thread[p] = "dead" /\ a_thread'[p] # "dead" /\ a_device[p] \in Arduinos)
              => /\ Data(Store', SURFACE)[a_device[p]] = FALSE
                 /\ a_thread'[p] = "new"
                 /\ a_device'[p] = UNASSIGNED
        /\ (a_thread'[p] = "handshake" /\ a_thread[p] # "handshake")
              => (a_thread[p] = "new" /\ a_device[p] = UNASSIGNED)]_vars

C8_Witness ==
    \E p \in ARDUINO_PORTS :
        /\ a_thread[p] = "dead"
        /\ a_device[p] = ARDUINO_A
        /\ a_data[p] = Mapping(<< <<"ID", "A_B">>, <<"S_A", 5>> >>)
        /\ Data(Store, SURFACE)["S_A"] = 0
        /\ Data(Store, SURFACE)["A_A"]

\* C9: when the exchange loop of the surface thread has ended, _surface_thread runs
\* cleanup() before it accepts again; cleanup() resets the Arduino dictionaries with
\* set(Device.SURFACE, set_default=True) before it releases the client socket, and no
\* accept comes between the end of the loop and that reset.
C9_CleanupResetsBeforeReleaseAndAccept ==
    [][/\ (SurfaceConnected /\ ~SurfaceConnected') => (s_sup = "poll" /\ s_sup' = "poll")
       /\ (s_sup = "poll" /\ s_sup' # "poll") => s_sup' = "cleanup"
       /\ (s_sup = "cleanup" /\ s_sup' # "cleanup")
          => /\ s_sup' = "cleanup_close"
             /\ \A d \in Arduinos : alias'[d]
             /\ s_client' = s_client
       /\ (s_client = "open" /\ s_client' # "open")
          => s_sup \in {"cleanup_close", "accept_cleanup_close"}
       /\ (s_sup' = "accept" /\ s_sup # "accept") => s_sup = "cleanup_close"]_vars

C9_Witness ==
    /\ s_sup = "cleanup_close"
    /\ s_client = "open"
    /\ s_thread = "new"
    /\ \A d \in Arduinos : alias[d]

\* C10: whatever the sessions receive and whatever fails in them, neither
\* _surface_thread nor the _arduino_thread of any port ever ends.
C10_SupervisorLoopsNeverEnd ==
    /\ s_sup # "stopped"
    /\ \A p \in ARDUINO_PORTS : a_sup[p] # "stopped"

\* ------------------------------------------------------------------------
\* Properties of concurrent DataManager calls (checked under RaceSpec)
\* ------------------------------------------------------------------------
\* the pairs <<S_A, S_B>> the surface dictionary holds between whole calls of set, in
\* whatever order the calls are made: the pair of the defaults and the pair of each line
WholeSensorPairs ==
    { <<DEFAULTS_LITERAL[SURFACE]["S_A"], DEFAULTS_LITERAL[SURFACE]["S_B"]>> }
    \cup { <<KwValue(m.kw, "S_A"), KwValue(m.kw, "S_B")>> : m \in RaceArduinoMessages \ {NoData} }

SensorPair(d) == <<d["S_A"], d["S_B"]>>

\* no call of set is between two of its assignments
NoSetInProgress ==
    /\ s_thread # "dispatch"
    /\ \A p \in ARDUINO_PORTS : a_thread[p] # "assign"

\* C11: get and set calls of the surface thread and the Arduino threads are atomic per
\* dictionary: every get returns, and the store ends with, what some serial order of
\* the whole calls gives.  With every Arduino line setting S_A and S_B together and
\* every surface message setting M_G and M_C together to one value, that means: the
\* dictionary get(Device.SURFACE) returns holds a pair <<S_A, S_B>> of one line (or
\* of the defaults), the dictionary get(Device.ARDUINO_B) returns holds M_G = M_C,
\* and so does the store whenever no set is in progress.
C11_GetAndSetAreAtomic ==
    /\ s_thread = "send" => SensorPair(s_data.value) \in WholeSensorPairs
    /\ \A p \in ARDUINO_PORTS :
          (a_thread[p] = "write" /\ a_device[p] = ARDUINO_B)
              => a_data[p].value["M_G"] = a_data[p].value["M_C"]
    /\ NoSetInProgress => SensorPair(Data(Store, SURFACE)) \in WholeSensorPairs

\* ------------------------------------------------------------------------
\* Properties of the sessions that need the supervisors to be scheduled
\* (checked under FairSpec)
\* ------------------------------------------------------------------------
\* the communication thread of port p ends on a SerialException: from the handshake,
\* from the timed-out branch (reset_output_buffer) or from the write and read
TransportErrorStep(p) ==
    /\ a_thread[p] \in {"handshake", "write"} \/ (a_thread[p] = "process" /\ a_data[p].kind = "empty")
    /\ a_thread'[p] = "dead"
    /\ a_device'[p] = a_device[p]

\* the step of disconnect() on port p after a session that a transport error can have
\* ended: its device is UNASSIGNED (handshake) or an Arduino (exchange)
DisconnectStep(p) ==
    /\ a_thread[p] = "dead" /\ a_thread'[p] # "dead"
    /\ a_device[p] \in Arduinos \cup {UNASSIGNED}

\* what a transport error and the disconnect after it do, but for the serial handle
TransportErrorCleanup(p) ==
    /\ TransportErrorStep(p) => (Store' = Store /\ a_device[p] \in Arduinos \cup {UNASSIGNED})
    /\ DisconnectStep(p)
          => /\ a_thread'[p] = "new"
             /\ a_device'[p] = UNASSIGNED
             /\ a_device[p] \in Arduinos => Data(Store', SURFACE)[a_device[p]] = FALSE
    /\ (a_thread'[p] = "handshake" /\ a_thread[p] # "handshake")
          => (a_thread[p] = "new" /\ a_device[p] = UNASSIGNED /\ ~a_open[p])

\* a dead communication thread is followed by the disconnect of its port
DeadSessionIsDisconnected ==
    \A p \in ARDUINO_PORTS : (a_thread[p] = "dead" /\ a_sup[p] = "poll") ~> (a_thread[p] = "new")

\* C12 as claimed: a SerialException in the handshake or in the exchange ends the
\* thread of the port; the supervisor then runs disconnect(), after which the serial
\* port is closed, the flag of a bound Arduino in the surface dictionary is False and
\* the device is UNASSIGNED, all before the next connect on that port.
C12_TransportErrorClosesPortAndClearsIdentity ==
    /\ [][\A p \in ARDUINO_PORTS :
            /\ TransportErrorCleanup(p)
            /\ DisconnectStep(p) => ~a_open'[p]]_vars
    /\ DeadSessionIsDisconnected

\* What holds of C12: the same, but the serial port is closed after disconnect() only
\* if close() returned: a SerialException of close() is swallowed and may leave the
\* port open, and connect() then starts no further session on it.
C12_TransportErrorClearsIdentityAndTriesClose ==
    /\ [][\A p \in ARDUINO_PORTS :
            /\ TransportErrorCleanup(p)
            /\ (DisconnectStep(p) /\ a_open'[p]) => (a_open[p] /\ a_sup'[p] = "connect")
            /\ (a_sup[p] = "connect" /\ a_open[p]) => (a_sup'[p] = "connect" /\ a_thread'[p] = "new")]_vars
    /\ DeadSessionIsDisconnected

\* a session bound to Arduino B has ended with no line in hand (no line of B makes set
\* fail, a rejected line stays in a_data): a transport error ended it, and its
\* disconnect is due
C12_Witness ==
    \E p \in ARDUINO_PORTS :
        /\ a_thread[p] = "dead"
        /\ a_sup[p] = "poll"
        /\ a_device[p] = ARDUINO_B
        /\ a_data[p] = NoData
        /\ a_open[p]
        /\ Data(Store, SURFACE)["A_B"]

\* ------------------------------------------------------------------------
\* Further properties of the sessions (checked under Spec)
\* ------------------------------------------------------------------------
\* a received surface message that is not applied: it does not decode, or it decodes to
\* something that is not a non-empty dict
NotApplied(msg) == msg.kind \in {"garbage", "nondict"} \/ (msg.kind = "map" /\ msg.kw = <<>>)

\* C13: in the exchange loop of the surface thread a non-empty message that does not
\* decode, or decodes to something that is not a non-empty dict, changes nothing in the
\* DataManager and does not end the thread; the thread goes on to get(Device.SURFACE)
\* and sends what that get returns before it reads again.
C13_UndecodableSurfaceMessageIsSkippedAndAnswered ==
    [][/\ (s_thread = "recv" /\ NotApplied(s_data') /\ s_data' \in SurfaceMessages)
          => (s_thread' = "get" /\ Store' = Store)
       /\ (s_thread = "get" /\ s_thread' # "get")
          => (s_thread' = "send" /\ s_data' = Fetched(Data(Store, SURFACE)))
       /\ (s_thread = "send" /\ s_thread' # "send")
          => (s_thread' \in {"recv", "dead"} /\ (s_thread' = "recv" => s_data' = s_data))
       /\ (s_thread' = "recv" /\ s_thread # "recv") => s_thread \in {"send", "new"}]_vars

C13_Witness ==
    /\ s_thread = "get"
    /\ s_data = Garbage
    /\ Data(Store, SURFACE)["S_A"] = 5
    /\ Data(Store, ARDUINO_A)["T_HFP"] = 1502

\* C14: the device of a port is UNASSIGNED until the handshake of its current connection
\* has completed, and when it is not UNASSIGNED it is an Arduino, never Device.SURFACE:
\* a handshake that aborts (undecodable line, no ID, unknown ID, ID of a device that is
\* not an Arduino) leaves it UNASSIGNED.
C14_IdentityUnassignedUntilHandshakeCompletes ==
    \A p \in ARDUINO_PORTS :
        /\ a_device[p] \in Arduinos \cup {UNASSIGNED}
        /\ a_thread[p] \in {"new", "handshake"} => a_device[p] = UNASSIGNED

\* cleanup() of the surface connection returns
CleanupReturns ==
    /\ s_sup \in {"cleanup_close", "accept_cleanup_close"}
    /\ s_sup' \in {"accept", "poll"}

\* disconnect() of port p returns
DisconnectReturns(p) == a_sup[p] = "poll" /\ a_sup'[p] = "connect"

\* C15: every cleanup releases the transport: when _SurfaceConnection.cleanup returns
\* the client socket is closed, and when Arduino.disconnect returns the serial port is
\* closed, also when shutdown() or close() raised in it.
C15_CleanupReleasesTransport ==
    [][/\ CleanupReturns => s_client' = "closed"
       /\ \A p \in ARDUINO_PORTS : DisconnectReturns(p) => ~a_open'[p]]_vars

\* ------------------------------------------------------------------------
\* Further properties of the DataManager (checked under StoreSpec)
\* ------------------------------------------------------------------------
\* the dictionary of device d is the same before and after the step, but for the keys in ks
SameBut(d, ks) ==
    /\ DOMAIN Data(Store', d) = DOMAIN Data(Store, d)
    /\ \A k \in (DOMAIN Data(Store, d)) \ ks : Data(Store', d)[k] = Data(Store, d)[k]

\* C16: set changes only the dictionaries it addresses.  A successful
\* set(Device.SURFACE, **values) without set_default changes, for each key of values,
\* only that key in the Arduino dictionary that has it: the surface dictionary, and
\* every other key of the Arduino dictionaries, stay as they are.  A successful
\* set(X, **values) of an Arduino X changes only the keys of values in the surface
\* dictionary and no Arduino dictionary.
C16_SetChangesOnlyAddressedKeys ==
    [][/\ (SurfaceSetStep /\ res'.err = "none")
          => /\ Data(Store', SURFACE) = Data(Store, SURFACE)
             /\ \A d \in Arduinos : SameBut(d, KwKeys(res'.kwargs) \cap SchemaKeys(d))
       /\ (res'.op = "set" /\ res'.device \in Arduinos /\ res'.err = "none")
          => /\ SameBut(SURFACE, KwKeys(res'.kwargs))
             /\ \A d \in Arduinos : Data(Store', d) = Data(Store, d)]_vars

C16_Witness ==
    /\ res.op = "set" /\ res.device = SURFACE /\ ~res.set_default /\ res.err = "none"
    /\ res.kwargs = << <<"T_HFP", 1503>>, <<"M_G", 1600>> >>
    /\ Data(Store, ARDUINO_A)["T_HFP"] = 1504
    /\ Data(Store, ARDUINO_B)["M_G"] = 1600
    /\ Data(Store, ARDUINO_B)["T_M"] = 1498
    /\ Data(Store, SURFACE)["S_A"] = 5
    /\ Data(Store, SURFACE)["A_A"]

C18_TimeoutStillWritesSnapshot ==
    [][\A p \in ARDUINO_PORTS :
        /\ (a_thread[p] = "process" /\ a_data[p].kind = "empty" /\ a_thread'[p] # "process")
              => /\ a_thread'[p] \in {"get", "dead"}
                 /\ Store' = Store
                 /\ a_device'[p] = a_device[p]
        /\ (a_thread[p] = "get" /\ a_thread'[p] # "get")
              => /\ a_thread'[p] = "write"
                 /\ a_data'[p] = Fetched(Data(Store, a_device[p]))
                 /\ a_device'[p] = a_device[p]
        /\ (a_thread[p] = "write" /\ a_thread'[p] # "write")
              => a_thread'[p] \in {"process", "dead"}]_vars

\* the step is a call of set that raises
FailedSetStep == res'.op = "set" /\ res'.err # "none"

\* the keys of kwargs that come before its first key no Arduino dictionary has
KeysBeforeUnknown(kw) ==
    { kw[i][1] : i \in { j \in DOMAIN kw : \A h \in 1..j : kw[h][1] \in ArduinoSchemaKeys } }

\* C19 as claimed: a call of set that raises (KeyError for an unknown key, or for
\* set_default with an Arduino) leaves every dictionary of the DataManager as it was
\* before the call, also when kwargs holds known keys and an unknown one, in any order.
C19_FailedSetLeavesStoreUnchanged ==
    [][FailedSetStep => \A d \in Stored : Data(Store', d) = Data(Store, d)]_vars

\* C19 as amended: a call set(X, ...) of an Arduino X that raises leaves every dictionary
\* as it was.  A call set(Device.SURFACE, **kwargs) that raises has handled the keys
\* that come before the first unknown key of kwargs, each ramped or assigned as in a
\* call that returns, and nothing else: the surface dictionary, the keys from the
\* unknown one on and all other keys are as they were.
C19_FailedSetKeepsKeysBeforeUnknown ==
    [][FailedSetStep =>
        /\ res'.device # SURFACE => \A d \in Stored : Data(Store', d) = Data(Store, d)
        /\ res'.device = SURFACE =>
              /\ ~res'.set_default
              /\ Data(Store', SURFACE) = Data(Store, SURFACE)
              /\ \A d \in Arduinos : SameBut(d, KeysBeforeUnknown(res'.kwargs) \cap SchemaKeys(d))
              /\ \A i \in DOMAIN res'.kwargs :
                    LET key == res'.kwargs[i][1]
                        target == res'.kwargs[i][2]
                        old == Data(Store, Owner(key))[key]
                        new == Data(Store', Owner(key))[key]
                    IN  key \in KeysBeforeUnknown(res'.kwargs)
                            => new = (IF key \notin RAMP_KEYS THEN target
                                      ELSE IF old > target THEN old - RAMP_RATE
                                      ELSE IF old < target THEN old + RAMP_RATE
                                      ELSE old)]_vars

C19_Witness ==
    /\ res.op = "set" /\ res.device = SURFACE /\ res.err = "KeyError"
    /\ res.kwargs = << <<"M_G", 1600>>, <<"nonexistent_key", 1>> >>
    /\ Data(Store, ARDUINO_B)["M_G"] = 1600
    /\ ~alias[ARDUINO_B]

\* ------------------------------------------------------------------------
\* Properties of repeated calls with one target (checked under RampSpec)
\* ------------------------------------------------------------------------
\* the stored value of the ramp key of the repeated call is less than RAMP_RATE away
\* from its target
WithinOneStep ==
    /\ Targeted
    /\ LET key == res.kwargs[1][1]
           target == res.kwargs[1][2]
           value == Data(Store, Owner(key))[key]
       IN  value - target < RAMP_RATE /\ target - value < RAMP_RATE

\* the stored value is the target exactly when the target lies a multiple of RAMP_RATE
\* from idle, the value the ramp starts from
AtTargetIffMultiple ==
    /\ Targeted
    /\ LET key == res.kwargs[1][1]
           target == res.kwargs[1][2]
           value == Data(Store, Owner(key))[key]
       IN  (value = target) <=> ((target - THRUSTER_IDLE) % RAMP_RATE = 0)

\* C20: under repeated calls set(Device.SURFACE, k=t) for a ramp key k and a fixed target
\* t, with no reset in between, the stored value is at some point less than RAMP_RATE
\* away from t and stays so for ever: it is t when the distance at the start is a
\* multiple of RAMP_RATE, and goes back and forth around t otherwise.
C20_RampSettlesWithinOneStep == <>[](WithinOneStep /\ AtTargetIffMultiple)

C20_Witness ==
    /\ Targeted
    /\ res.kwargs = << <<"T_HFP", 1505>> >>
    /\ Data(Store, ARDUINO_A)["T_HFP"] = 1506
    /\ alias[ARDUINO_A]

\* ------------------------------------------------------------------------
\* C21, C22: the connection flags and the devices the sessions are bound to
\* ------------------------------------------------------------------------
\* the session on port p has identified itself as device X and has not been
\* disconnected since
BoundTo(p, X) == a_device[p] = X

\* the thread of the session on port p is still exchanging data
LiveSession(p) == a_thread[p] \in {"process", "get", "write"}

\* C21: whenever the flag of an Arduino X in the surface dictionary is true, the
\* session on some port is bound to X; no line of a session bound to another device
\* and no disconnect of another session makes the flag of X say otherwise.
C21_FlagImpliesBoundSession ==
    \A X \in Arduinos :
        Data(Store, SURFACE)[X] = TRUE => \E p \in ARDUINO_PORTS : BoundTo(p, X)

\* C22: the sessions on two different ports are never bound to the same Arduino
\* while both are live: a handshake naming a device that another live session is
\* bound to does not complete.
C22_NoTwoSessionsBoundToSameDevice ==
    \A p, q \in ARDUINO_PORTS :
        (p # q /\ LiveSession(p) /\ LiveSession(q) /\ a_device[p] \in Arduinos)
            => a_device[q] # a_device[p]

====
